---- MODULE Spec2Model ----
(***************************************************************************)
(* A model of jwasm, a decoder for the WebAssembly binary module format.   *)
(*                                                                         *)
(* The byte source is a forward-only reader over a fixed byte sequence     *)
(* (input) with a cursor (pos); io.LimitReader wrappers are a stack of     *)
(* remaining byte counts.  Every decoder is an operator from a reader to a *)
(* result record holding the error, the decoded value and the reader       *)
(* afterwards.  big.Int values are little-endian bit sequences without     *)
(* high zero bits, so that 33-bit and wider values stay representable.     *)
(***************************************************************************)
EXTENDS Integers, Sequences, FiniteSets, TLC

VARIABLES
    input,      \* the bytes of the underlying reader
    source,     \* kind of the underlying reader: "bytes.Reader" or "os.File"
    pos,        \* number of bytes consumed from the underlying reader
    pc,         \* position of the running operation
    lim,        \* remaining count N of parseSection's io.LimitReader
    secId,      \* parseSection: the section id byte
    secSize,    \* parseSection: the declared section size
    secStart,   \* pos at which the current/last section's content starts
    section,    \* the section returned by the last parseSection
    numEntries, \* parseCodeSection: declared number of code entries
    result,     \* parseCodeSection: function codes decoded so far
    lastEntry,  \* parseCodeSection: framing of the entry decoded last
    nSections,  \* number of sections Parse has obtained from parseSection
    err,        \* error returned by the operation ("nil" when none)
    ret         \* result of a direct call of an integer reader

vars == <<input, source, pos, pc, lim, secId, secSize, secStart, section,
          numEntries, result, lastEntry, nSections, err, ret>>

----------------------------------------------------------------------------
(* Bounds of the model *)

\* longest byte sequence given to the integer readers
MaxLebLen == 5

----------------------------------------------------------------------------
(* Helpers on numbers, bytes and bits *)

Min(a, b) == IF a <= b THEN a ELSE b
Max(a, b) == IF a >= b THEN a ELSE b

RECURSIVE Pow2(_)
Pow2(n) == IF n = 0 THEN 1 ELSE 2 * Pow2(n - 1)

\* a & b on machine words
RECURSIVE BitAnd(_, _)
BitAnd(a, b) ==
    IF a = 0 \/ b = 0 THEN 0
    ELSE (a % 2) * (b % 2) + 2 * BitAnd(a \div 2, b \div 2)

\* a >> k on machine words
Rsh(a, k) == a \div Pow2(k)

\* drop the high zero bits: the canonical form of a big.Int
RECURSIVE Norm(_)
Norm(bits) ==
    IF bits = <<>> THEN <<>>
    ELSE IF bits[Len(bits)] = 0 THEN Norm(SubSeq(bits, 1, Len(bits) - 1))
    ELSE bits

\* big.Int.SetUint64
RECURSIVE SetUint64(_)
SetUint64(n) == IF n = 0 THEN <<>> ELSE <<n % 2>> \o SetUint64(n \div 2)

\* big.Int.Lsh
Lsh(x, k) == IF x = <<>> THEN <<>> ELSE [i \in 1..k |-> 0] \o x

BitAt(x, i) == IF i <= Len(x) THEN x[i] ELSE 0

\* big.Int.Or
Or(x, y) == Norm([i \in 1..Max(Len(x), Len(y)) |-> Max(BitAt(x, i), BitAt(y, i))])

\* big.Int.BitLen
BitLen(x) == Len(x)

\* big.Int.Uint64: the low 64 bits
Uint64(x) == Norm(SubSeq(x, 1, Min(Len(x), 64)))

\* conversion of a 64-bit word to a w-bit word: the low w bits
Narrow(x, w) == Norm(SubSeq(x, 1, Min(Len(x), w)))

\* int(v), int64(v) of a decoded uint32: counts of 2^30 and more exceed every
\* stream of the model and are all represented by 2^30
RECURSIVE BitsToNat(_)
BitsToNat(x) == IF x = <<>> THEN 0 ELSE x[1] + 2 * BitsToNat(Tail(x))
IntOf(x) == IF Len(x) > 30 THEN Pow2(30) ELSE BitsToNat(x)

----------------------------------------------------------------------------
(* Results.  A decoder returns a record: err ("nil" or the error), the value  *)
(* and the reader as the decoder left it.  Then(r, msg, K) is the idiom       *)
(*     x, err := f(r); if err != nil { return nil, fmt.Errorf(msg, err) }; K  *)

Ok(v, rd) == [err |-> "nil", v |-> v, rd |-> rd]
Err(msg, rd) == [err |-> msg, v |-> <<>>, rd |-> rd]
Then(r, msg, K(_)) == IF r.err # "nil" THEN Err(msg, r.rd) ELSE K(r)
\* the same, the error being returned as it is
Pass(r, K(_)) == IF r.err # "nil" THEN Err(r.err, r.rd) ELSE K(r)

----------------------------------------------------------------------------
(* The byte source: bytes.Reader / os.File under a stack of LimitedReaders *)

\* a reader: the cursor of the underlying source and the remaining counts of
\* the LimitedReaders wrapped around it, outermost first
Reader(p, ls) == [pos |-> p, lims |-> ls]

\* a plausible slip: a bound one byte too wide
LimitReaderOffByOne(rd, n) == [rd EXCEPT !.lims = Append(@, n + 1)]

\* io.LimitReader(r, n)
LimitReader(rd, n) == [rd EXCEPT !.lims = Append(@, n)]

\* the smallest of want and the remaining counts
RECURSIVE Capped(_, _)
Capped(ls, want) == IF ls = <<>> THEN want ELSE Capped(Tail(ls), Min(want, Head(ls)))

\* what bytes.Reader.Read / os.File.Read answer to a Read of w bytes
SourceRead(rd, w) ==
    IF rd.pos >= Len(input)
    THEN [n |-> 0, eof |-> ~(source = "os.File" /\ w = 0), bytes |-> <<>>, rd |-> rd]
    ELSE [n |-> Min(w, Len(input) - rd.pos), eof |-> FALSE,
          bytes |-> SubSeq(input, rd.pos + 1, rd.pos + Min(w, Len(input) - rd.pos)),
          rd |-> [pos |-> rd.pos + Min(w, Len(input) - rd.pos),
                  lims |-> [i \in DOMAIN rd.lims |->
                              rd.lims[i] - Min(w, Len(input) - rd.pos)]]]

\* one Read(p) call with len(p) = want: LimitedReader.Read down to the source.
\* A LimitedReader with N <= 0 answers io.EOF; otherwise it shortens p to N.
\* bytes.Reader answers io.EOF at the end even for an empty p, os.File does not.
Read(rd, want) ==
    IF \E i \in DOMAIN rd.lims : rd.lims[i] <= 0
    THEN [n |-> 0, eof |-> TRUE, bytes |-> <<>>, rd |-> rd]
    ELSE SourceRead(rd, Capped(rd.lims, want))

\* io.ReadFull, as binary.Read uses it for a fixed-size value of n >= 1 bytes
RECURSIVE ReadFullLoop(_, _, _)
ReadFullStep(r, n, got) ==
    IF r.eof
    THEN [err |-> IF got = <<>> THEN "io.EOF" ELSE "io.ErrUnexpectedEOF",
          bytes |-> got, rd |-> r.rd]
    ELSE ReadFullLoop(r.rd, n, got \o r.bytes)
ReadFullLoop(rd, n, got) ==
    IF Len(got) >= n THEN [err |-> "nil", bytes |-> got, rd |-> rd]
    ELSE ReadFullStep(Read(rd, n - Len(got)), n, got)
ReadFull(rd, n) == ReadFullLoop(rd, n, <<>>)

\* binary.Read of one byte
ByteOf(r) == [err |-> r.err, b |-> IF r.err = "nil" THEN r.bytes[1] ELSE 0, rd |-> r.rd]
ReadByte(rd) == ByteOf(ReadFull(rd, 1))

\* io.ReadAll: reads until io.EOF and never reports it
RECURSIVE ReadAllLoop(_, _)
ReadAllStep(r, got) ==
    IF r.eof THEN Ok(got, r.rd) ELSE ReadAllLoop(r.rd, got \o r.bytes)
ReadAllLoop(rd, got) == ReadAllStep(Read(rd, Len(input) + 1), got)
ReadAll(rd) == ReadAllLoop(rd, <<>>)

----------------------------------------------------------------------------
(* LEB128 *)

\* a plausible slip: b & (0b10000000 >> 7)
IsLastWrongPrecedence(b) == BitAnd(b, Rsh(128, 7)) = 0

\* isLast := (b & (0b10000000) >> 7) == 0; & and >> bind alike, left to right
IsLast(b) == Rsh(BitAnd(b, 128), 7) = 0

\* the loop of ReadUleb128: acc is result so far
RECURSIVE ReadUleb128Loop(_, _, _)
Uleb128Last(r, res, bytesRead) ==
    IF IsLast(r.b) THEN Ok(res, r.rd) ELSE ReadUleb128Loop(r.rd, res, bytesRead)
ReadUleb128Loop(rd, acc, bytesRead) ==
    Then(ReadByte(rd), "reading uleb128 byte failed",
         LAMBDA r : Uleb128Last(r,
                        Or(acc, Lsh(SetUint64(BitAnd(r.b, 127)), 7 * bytesRead)),
                        bytesRead + 1))

ReadUleb128(rd) == ReadUleb128Loop(rd, <<>>, 0)

\* the width check and conversion of ReadUint8 (w = 8) and ReadUint32 (w = 32)
Narrowed(r, w) ==
    IF BitLen(r.v) > w THEN Err("uleb128 is too large", r.rd)
    ELSE Ok(Narrow(Uint64(r.v), w), r.rd)

ReadUint8(rd) ==
    Then(ReadUleb128(rd), "reading uleb128 for uint8 failed", LAMBDA r : Narrowed(r, 8))

\* a plausible slip: the conversion without the width check
ReadUint32Unchecked(rd) ==
    Then(ReadUleb128(rd), "reading uleb128 for uint8 failed",
         LAMBDA r : Ok(Narrow(Uint64(r.v), 32), r.rd))

ReadUint32(rd) ==
    Then(ReadUleb128(rd), "reading uleb128 for uint8 failed", LAMBDA r : Narrowed(r, 32))

----------------------------------------------------------------------------
(* Names, value types, function types *)

\* parseName after the size: one Read into a buffer of size bytes
NameBytes(r, size) ==
    IF r.n # size THEN Err("reading vector failed", r.rd)
    ELSE IF r.eof THEN Err("reading vector data failed", r.rd)
    ELSE Ok(r.bytes, r.rd)

parseName(rd) ==
    Then(ReadUint32(rd), "reading vector size failed",
         LAMBDA size : NameBytes(Read(size.rd, IntOf(size.v)), IntOf(size.v)))

NumberTypeI32 == 127
NumberTypeI64 == 126
NumberTypeF32 == 125
NumberTypeF64 == 124
VectorTypeV128 == 123
ReferenceTypeFuncRef == 112
ReferenceTypeExternRef == 111

\* &numberType{...}, &vectorType{...}, &referenceType{...}: a pointer to a newly
\* allocated struct; ptr identifies the allocation (the offset of the byte it
\* was decoded from), and two pointers are equal only if they are one allocation
NewValueType(family, code, name, at) ==
    [family |-> family, code |-> code, name |-> name, ptr |-> at]

\* the switch of parseValueType on the byte b read at offset at
ValueTypeOf(b, at, rd) ==
    CASE b = NumberTypeI32 -> Ok(NewValueType("numberType", b, "i32", at), rd)
      [] b = NumberTypeI64 -> Ok(NewValueType("numberType", b, "i64", at), rd)
      [] b = NumberTypeF32 -> Ok(NewValueType("numberType", b, "f32", at), rd)
      [] b = NumberTypeF64 -> Ok(NewValueType("numberType", b, "f64", at), rd)
      [] b = VectorTypeV128 -> Ok(NewValueType("vectorType", b, "v128", at), rd)
      [] b = ReferenceTypeFuncRef -> Ok(NewValueType("referenceType", b, "funcref", at), rd)
      [] b = ReferenceTypeExternRef ->
             Ok(NewValueType("referenceType", b, "externref", at), rd)
      [] OTHER -> Err("reading value type failed, unknown code", rd)

parseValueType(rd) ==
    Then(ReadByte(rd), "reading value type byte failed",
         LAMBDA r : ValueTypeOf(r.b, rd.pos, r.rd))

RECURSIVE parseResultTypeLoop(_, _, _)
parseResultTypeLoop(rd, size, resultType) ==
    IF Len(resultType) >= size THEN Ok(resultType, rd)
    ELSE Then(parseValueType(rd), "parsing value type for result type failed",
              LAMBDA vt : parseResultTypeLoop(vt.rd, size, Append(resultType, vt.v)))

parseResultType(rd) ==
    Then(ReadUint32(rd), "reading result type vector length failed",
         LAMBDA size : parseResultTypeLoop(size.rd, IntOf(size.v), <<>>))

FunctionTypeHeader == 96

\* parseFunctionType after the header byte
FunctionTypeBody(rd) ==
    Then(parseResultType(rd), "parsing function type failed for rt1",
         LAMBDA rt1 :
            Then(parseResultType(rt1.rd), "parsing function type failed for rt2",
                 LAMBDA rt2 :
                    Ok([ParameterTypes |-> rt1.v, ResultTypes |-> rt2.v], rt2.rd)))

parseFunctionType(rd) ==
    Then(ReadByte(rd), "reading function type header failed",
         LAMBDA header :
            IF header.b # FunctionTypeHeader
            THEN Err("function type header wrong", header.rd)
            ELSE FunctionTypeBody(header.rd))

----------------------------------------------------------------------------
(* Instructions *)

OpEnd == 11
OpLocalGet == 32
OpI32Add == 106

\* a plausible slip: the index is not read, so the byte after 0x20 is taken as
\* the next opcode
parseLocalGetNoImmediate(rd) ==
    Ok([op |-> "localGet", x |-> 0], rd)

parseLocalGet(rd) ==
    Then(ReadUint32(rd), "reading x for LocalGet failed",
         LAMBDA x : Ok([op |-> "localGet", x |-> IntOf(x.v)], x.rd))

\* a plausible slip: an opcode without a case is skipped
parseInstructionSkipping(rd, opcode) ==
    CASE opcode = OpLocalGet -> parseLocalGet(rd)
      [] opcode = OpI32Add -> Ok([op |-> "int32Add"], rd)
      [] OTHER -> Ok([op |-> "nop"], rd)

parseInstruction(rd, opcode) ==
    CASE opcode = OpLocalGet -> parseLocalGet(rd)
      [] opcode = OpI32Add -> Ok([op |-> "int32Add"], rd)
      [] OTHER -> Err("parsing instructions failed, unknown opcode", rd)

RECURSIVE parseInstructionsLoop(_, _)
parseInstructionsLoop(rd, instructions) ==
    Then(ReadByte(rd), "reading instruction byte failed",
         LAMBDA opcode :
            IF opcode.b = OpEnd THEN Ok(instructions, opcode.rd)
            ELSE Then(parseInstruction(opcode.rd, opcode.b),
                      "parsing instructions failed, unknown opcode",
                      LAMBDA instr :
                         parseInstructionsLoop(instr.rd, Append(instructions, instr.v))))

parseInstructions(rd) == parseInstructionsLoop(rd, <<>>)

----------------------------------------------------------------------------
(* Section contents *)

\* parseCustomSection after the name: io.ReadAll of the bounded reader
CustomData(name, data) ==
    Ok([kind |-> "custom", Name |-> name, Data |-> data.v], data.rd)

parseCustomSection(rd) ==
    Then(parseName(rd), "reading custom section name failed",
         LAMBDA sectionName : CustomData(sectionName.v, ReadAll(sectionName.rd)))

RECURSIVE parseTypeSectionLoop(_, _, _)
parseTypeSectionLoop(rd, numTypes, functionTypes) ==
    IF Len(functionTypes) >= numTypes
    THEN Ok([kind |-> "type", FunctionTypes |-> functionTypes], rd)
    ELSE Then(parseFunctionType(rd), "reading function type failed",
              LAMBDA ft : parseTypeSectionLoop(ft.rd, numTypes,
                                               Append(functionTypes, ft.v)))

parseTypeSection(rd) ==
    Then(ReadUint32(rd), "reading vector size of function types failed",
         LAMBDA numTypes : parseTypeSectionLoop(numTypes.rd, IntOf(numTypes.v), <<>>))

RECURSIVE parseFunctionSectionLoop(_, _, _)
parseFunctionSectionLoop(rd, numIndices, typeIndices) ==
    IF Len(typeIndices) >= numIndices
    THEN Ok([kind |-> "function", typeIndices |-> typeIndices], rd)
    ELSE Then(ReadUint32(rd), "reading type index in function section failed",
              LAMBDA typeIdx :
                 parseFunctionSectionLoop(typeIdx.rd, numIndices,
                                          Append(typeIndices, IntOf(typeIdx.v))))

parseFunctionSection(rd) ==
    Then(ReadUint32(rd), "reading vector size of function section failed",
         LAMBDA numIndices :
            parseFunctionSectionLoop(numIndices.rd, IntOf(numIndices.v), <<>>))

\* the switch that builds the export description from the byte b and the index x
\* held when it is reached; no case matches a b above 3 and the description
\* stays nil
ExportDescription(b, x) ==
    CASE b = 0 -> [variant |-> "func", index |-> x]
      [] b = 1 -> [variant |-> "table", index |-> x]
      [] b = 2 -> [variant |-> "mem", index |-> x]
      [] b = 3 -> [variant |-> "global", index |-> x]
      [] OTHER -> [variant |-> "nil", index |-> 0]

\* one iteration of the loop of parseExportSection.  The kind tag is read into
\* b, then the next byte is read into b again; x is declared and never
\* assigned, so it is 0 at the switch.  tagAt records the offset of the kind tag.
parseExport(rd) ==
    Then(parseName(rd), "parsing name of export failed",
         LAMBDA name :
            Then(ReadByte(name.rd), "reading export description type byte failed",
                 LAMBDA tag :
                    Then(ReadByte(tag.rd), "reading export description index failed",
                         LAMBDA b :
                            Ok([name |-> name.v,
                                exportDescription |-> ExportDescription(b.b, 0),
                                tagAt |-> name.rd.pos],
                               b.rd))))

RECURSIVE parseExportSectionLoop(_, _, _)
parseExportSectionLoop(rd, numExports, exports) ==
    IF Len(exports) >= numExports
    THEN Ok([kind |-> "export", exports |-> exports], rd)
    ELSE Pass(parseExport(rd),
              LAMBDA e : parseExportSectionLoop(e.rd, numExports, Append(exports, e.v)))

parseExportSection(rd) ==
    Then(ReadUint32(rd), "reading vector size of export section failed",
         LAMBDA numExports :
            parseExportSectionLoop(numExports.rd, IntOf(numExports.v), <<>>))

\* locals[valueType] += n on a map[ValueType]uint32: a missing key reads as 0.
\* The map is a function from the keys present to their counts.
MapAdd(locals, valueType, n) ==
    IF valueType \in DOMAIN locals
    THEN [locals EXCEPT ![valueType] = @ + n]
    ELSE [k \in DOMAIN locals \cup {valueType} |->
            IF k = valueType THEN n ELSE locals[k]]

EmptyMap == [k \in {} |-> 0]

\* the loop over the (count, value-type) runs of a code entry's locals
RECURSIVE parseLocalsLoop(_, _, _, _)
parseLocalsLoop(rd, j, numLocals, locals) ==
    IF j >= numLocals THEN Ok(locals, rd)
    ELSE Then(ReadUint32(rd), "reading function locals n failed",
              LAMBDA n :
                 Then(parseValueType(n.rd), "reading function locals value type failed",
                      LAMBDA valueType :
                         parseLocalsLoop(valueType.rd, j + 1, numLocals,
                                         MapAdd(locals, valueType.v, IntOf(n.v)))))

\* a code entry on its bounded reader: the locals, then the instructions
parseCodeBody(limitReader) ==
    Then(ReadUint32(limitReader), "reading vector size of function locals failed",
         LAMBDA numLocals :
            Pass(parseLocalsLoop(numLocals.rd, 0, IntOf(numLocals.v), EmptyMap),
                 LAMBDA locals :
                    Then(parseInstructions(locals.rd), "reading function body failed",
                         LAMBDA instructions :
                            Ok([locals |-> locals.v, body |-> instructions.v],
                               instructions.rd))))

\* the entry's result on the section's reader, the entry's bounded reader being
\* dropped.  frame records the entry's declared size, the bytes the section's
\* reader still allowed and the offsets where the bounded reader started and
\* stopped.
Framed(r, codeSize) ==
    [err |-> r.err, v |-> r.v,
     rd |-> [pos |-> r.rd.pos, lims |-> SubSeq(r.rd.lims, 1, Len(codeSize.rd.lims))],
     frame |-> [ok |-> r.err = "nil", size |-> IntOf(codeSize.v),
                avail |-> Capped(codeSize.rd.lims, Len(input)),
                start |-> codeSize.rd.pos, end |-> r.rd.pos]]

\* reading the entry's size failed
Unframed(codeSize) ==
    [err |-> "reading vector size of function code failed", v |-> <<>>,
     rd |-> codeSize.rd,
     frame |-> [ok |-> FALSE, size |-> 0, avail |-> 0,
                start |-> codeSize.rd.pos, end |-> codeSize.rd.pos]]

\* one iteration of the loop over the entries of parseCodeSection, on the
\* section's reader
CodeEntryOf(codeSize) ==
    IF codeSize.err # "nil" THEN Unframed(codeSize)
    ELSE Framed(parseCodeBody(LimitReader(codeSize.rd, IntOf(codeSize.v))), codeSize)

parseCodeEntry(rd) == CodeEntryOf(ReadUint32(rd))

----------------------------------------------------------------------------
(* Direct calls of the integer readers on a fresh reader *)

LebBytes == {0, 1, 2, 15, 16, 127, 128, 255}

LebInputs == UNION {[1..n -> LebBytes] : n \in 0..MaxLebLen}

NoSection == [kind |-> "none"]
NoEntry == [ok |-> FALSE, size |-> 0, avail |-> 0, start |-> 0, end |-> 0]
NoRet == [fn |-> "none", err |-> "nil", v |-> <<>>]

InitLeb ==
    /\ input \in LebInputs
    /\ source = "bytes.Reader"
    /\ pos = 0
    /\ pc = "call"
    /\ lim = 0 /\ secId = 0 /\ secSize = 0 /\ secStart = 0
    /\ section = NoSection
    /\ numEntries = 0 /\ result = <<>> /\ lastEntry = NoEntry
    /\ nSections = 0
    /\ err = "nil"
    /\ ret = NoRet

ParseVarsUnchanged ==
    UNCHANGED <<input, source, lim, secId, secSize, secStart, section,
                numEntries, result, lastEntry, nSections>>

Return(fn, r) ==
    /\ pos' = r.rd.pos
    /\ err' = r.err
    /\ ret' = [fn |-> fn, err |-> r.err, v |-> r.v]
    /\ pc' = "returned"
    /\ ParseVarsUnchanged

CallReadUleb128 == pc = "call" /\ Return("ReadUleb128", ReadUleb128(Reader(pos, <<>>)))
CallReadUint8   == pc = "call" /\ Return("ReadUint8", ReadUint8(Reader(pos, <<>>)))
CallReadUint32  == pc = "call" /\ Return("ReadUint32", ReadUint32(Reader(pos, <<>>)))

NextLeb == CallReadUleb128 \/ CallReadUint8 \/ CallReadUint32

SpecLeb == InitLeb /\ [][NextLeb]_vars

----------------------------------------------------------------------------
(* Direct calls of parseName and parseInstructions, on the source itself and *)
(* on an io.LimitReader around it, as parseSection and parseCodeSection hand *)
(* it to them                                                                *)

\* longest stream handed to a direct call
MaxCallLen == 4

\* lengths and bytes of names: ASCII, and the UTF-8 lead byte C3 and
\* continuation byte A9
NameByteValues == {0, 1, 2, 97, 169, 195}

\* opcodes, immediates and bytes that are neither
InstructionByteValues == {1, 11, 32, 106, 128}

CallInputs ==
    UNION {[1..n -> NameByteValues] \cup [1..n -> InstructionByteValues] :
              n \in 0..MaxCallLen}

InitCalls ==
    /\ input \in CallInputs
    /\ source \in {"bytes.Reader", "os.File"}
    /\ pos = 0
    /\ pc = "call"
    /\ lim \in 0..(Len(input) + 1)
    /\ secId = 0 /\ secSize = 0 /\ secStart = 0
    /\ section = NoSection
    /\ numEntries = 0 /\ result = <<>> /\ lastEntry = NoEntry
    /\ nSections = 0
    /\ err = "nil"
    /\ ret = NoRet

CallParseName == pc = "call" /\ Return("parseName", parseName(Reader(pos, <<>>)))

CallParseNameBounded ==
    pc = "call" /\ Return("parseName(LimitReader)",
                          parseName(LimitReader(Reader(pos, <<>>), lim)))

CallParseInstructions ==
    pc = "call" /\ Return("parseInstructions", parseInstructions(Reader(pos, <<>>)))

CallParseInstructionsBounded ==
    pc = "call" /\ Return("parseInstructions(LimitReader)",
                          parseInstructions(LimitReader(Reader(pos, <<>>), lim)))

NextCalls ==
    \/ CallParseName
    \/ CallParseNameBounded
    \/ CallParseInstructions
    \/ CallParseInstructionsBounded

SpecCalls == InitCalls /\ [][NextCalls]_vars

----------------------------------------------------------------------------
(* Parser.Parse as a state machine *)

WASM_BINARY_MAGIC == 6386541
WASM_BINARY_VERSION == 16777216

customSectionId == 0
typeSectionId == 1
functionSectionId == 3
exportSectionId == 7
codeSectionId == 10

\* binary.BigEndian.Uint32
BigEndianUint32(bs) == ((bs[1] * 256 + bs[2]) * 256 + bs[3]) * 256 + bs[4]

\* the reader Parse was given
TopReader == Reader(pos, <<>>)

\* parseSection's limitReader, with the count it has left
SectionReader == LimitReader(TopReader, lim)

Remaining(rd) == IF rd.lims = <<>> THEN lim ELSE rd.lims[1]

CodeVarsUnchanged == UNCHANGED <<numEntries, result, lastEntry>>
HeaderVarsUnchanged == UNCHANGED <<secId, secSize, secStart>>

\* Parse returns the error e
Fail(e) == pc' = "failed" /\ err' = e

\* Parse on the four bytes read for the magic number
MagicRead(r) ==
    /\ pos' = r.rd.pos
    /\ IF r.err # "nil" THEN Fail("reading magic failed")
       ELSE IF BigEndianUint32(r.bytes) # WASM_BINARY_MAGIC
       THEN Fail("magic did not match")
       ELSE pc' = "version" /\ err' = err

\* Parse: read and compare the magic number
ReadMagic ==
    /\ pc = "magic"
    /\ MagicRead(ReadFull(TopReader, 4))
    /\ HeaderVarsUnchanged /\ CodeVarsUnchanged
    /\ UNCHANGED <<input, source, lim, section, nSections, ret>>

\* a plausible slip: the version is read and not compared
VersionReadUncompared(r) ==
    /\ pos' = r.rd.pos
    /\ IF r.err # "nil" THEN Fail("reading version failed")
       ELSE pc' = "section" /\ err' = err

\* Parse on the four bytes read for the version
VersionRead(r) ==
    /\ pos' = r.rd.pos
    /\ IF r.err # "nil" THEN Fail("reading version failed")
       ELSE IF BigEndianUint32(r.bytes) # WASM_BINARY_VERSION
       THEN Fail("version did not match")
       ELSE pc' = "section" /\ err' = err

\* Parse: read and compare the version
ReadVersion ==
    /\ pc = "version"
    /\ VersionRead(ReadFull(TopReader, 4))
    /\ HeaderVarsUnchanged /\ CodeVarsUnchanged
    /\ UNCHANGED <<input, source, lim, section, nSections, ret>>

\* the section loop of Parse on what parseSection returned: io.EOF itself ends
\* the loop and Parse returns nil, any other error is returned, and a section
\* is printed and the loop goes on
LoopOn(e, sec) ==
    IF e = "io.EOF" THEN pc' = "done" /\ err' = "nil" /\ UNCHANGED <<section, nSections>>
    ELSE IF e # "nil" THEN Fail(e) /\ UNCHANGED <<section, nSections>>
    ELSE /\ pc' = "section" /\ err' = err
         /\ section' = sec
         /\ nSections' = nSections + 1

\* parseSection on the size read after the id byte: the bounded reader
SizeRead(id, size) ==
    /\ pos' = size.rd.pos
    /\ IF size.err # "nil"
       THEN /\ LoopOn("reading section size failed", NoSection)
            /\ UNCHANGED <<lim, secId, secSize, secStart>>
       ELSE /\ secId' = id
            /\ secSize' = IntOf(size.v)
            /\ secStart' = size.rd.pos
            /\ lim' = IntOf(size.v)
            /\ pc' = "content"
            /\ UNCHANGED <<err, section, nSections>>

\* parseSection on the id byte read: io.EOF is returned as it is
IdRead(id) ==
    IF id.err # "nil"
    THEN /\ pos' = id.rd.pos
         /\ LoopOn(IF id.err = "io.EOF" THEN "io.EOF" ELSE "reading section id failed",
                   NoSection)
         /\ UNCHANGED <<lim, secId, secSize, secStart>>
    ELSE SizeRead(id.b, ReadUint32(id.rd))

\* parseSection up to its switch: the id byte, the size and the bounded reader
SectionHeader ==
    /\ pc = "section"
    /\ IdRead(ReadByte(TopReader))
    /\ CodeVarsUnchanged
    /\ UNCHANGED <<input, source, ret>>

\* parseSection returning what a content decoder returned on the bounded reader
Content(r) ==
    /\ pos' = r.rd.pos
    /\ lim' = Remaining(r.rd)
    /\ LoopOn(r.err, r.v)
    /\ HeaderVarsUnchanged /\ CodeVarsUnchanged
    /\ UNCHANGED <<input, source, ret>>

CustomSection ==
    pc = "content" /\ secId = customSectionId /\ Content(parseCustomSection(SectionReader))

TypeSection ==
    pc = "content" /\ secId = typeSectionId /\ Content(parseTypeSection(SectionReader))

FunctionSection ==
    pc = "content" /\ secId = functionSectionId
        /\ Content(parseFunctionSection(SectionReader))

ExportSection ==
    pc = "content" /\ secId = exportSectionId /\ Content(parseExportSection(SectionReader))

\* the default case of parseSection's switch
UnknownSection ==
    /\ pc = "content"
    /\ secId \notin {customSectionId, typeSectionId, functionSectionId,
                     exportSectionId, codeSectionId}
    /\ LoopOn("reading of section with unknown id failed", NoSection)
    /\ HeaderVarsUnchanged /\ CodeVarsUnchanged
    /\ UNCHANGED <<input, source, pos, lim, ret>>

\* parseCodeSection on the number of entries read
EntriesRead(n) ==
    /\ pos' = n.rd.pos
    /\ lim' = Remaining(n.rd)
    /\ IF n.err # "nil"
       THEN /\ LoopOn("reading vector size of code section failed", NoSection)
            /\ UNCHANGED <<numEntries, result>>
       ELSE /\ numEntries' = IntOf(n.v)
            /\ result' = <<>>
            /\ pc' = "entry"
            /\ UNCHANGED <<err, section, nSections>>

\* parseCodeSection: the number of entries
CodeSectionBegin ==
    /\ pc = "content" /\ secId = codeSectionId
    /\ EntriesRead(ReadUint32(SectionReader))
    /\ HeaderVarsUnchanged
    /\ UNCHANGED <<input, source, lastEntry, ret>>

\* parseCodeSection on one decoded entry
EntryRead(r) ==
    /\ pos' = r.rd.pos
    /\ lim' = Remaining(r.rd)
    /\ lastEntry' = r.frame
    /\ IF r.err # "nil"
       THEN LoopOn(r.err, NoSection) /\ UNCHANGED result
       ELSE /\ result' = Append(result, r.v)
            /\ UNCHANGED <<pc, err, section, nSections>>

\* parseCodeSection: one iteration of the loop over the entries
CodeEntry ==
    /\ pc = "entry" /\ Len(result) < numEntries
    /\ EntryRead(parseCodeEntry(SectionReader))
    /\ HeaderVarsUnchanged
    /\ UNCHANGED <<input, source, numEntries, ret>>

\* parseCodeSection: the loop is over and the section is returned
CodeSectionEnd ==
    /\ pc = "entry" /\ Len(result) >= numEntries
    /\ LoopOn("nil", [kind |-> "code", functionCode |-> result])
    /\ HeaderVarsUnchanged /\ CodeVarsUnchanged
    /\ UNCHANGED <<input, source, pos, lim, ret>>

----------------------------------------------------------------------------
(* The streams Parse is run on *)

\* longest content of a custom or function section taken byte by byte
MaxRawLen == 3
\* how far a declared size may differ from the length of what it frames
SizeSlack == 1

Seqs(S, n) == UNION {[1..k -> S] : k \in 0..n}

GoodHeader == <<0, 97, 115, 109, 1, 0, 0, 0>>

BadHeaders ==
    {SubSeq(GoodHeader, 1, k) : k \in 0..7}
      \cup {<<0, 97, 115, 110, 1, 0, 0, 0>>, <<1, 97, 115, 109, 1, 0, 0, 0>>,
            <<0, 97, 115, 109, 2, 0, 0, 0>>, <<0, 97, 115, 109, 1, 0, 0, 1>>,
            <<0, 97, 115, 109, 0, 0, 0, 1>>}

RawContents == Seqs({0, 1, 2, 97, 128}, MaxRawLen)

FuncTypeImages ==
    {<<96, 0, 0>>, <<96, 1, 127, 0>>, <<96, 0, 1, 126>>, <<96, 1, 123, 1, 112>>,
     <<96, 1, 111, 1, 125>>, <<96, 1, 124, 0>>, <<97, 0, 0>>, <<96, 1, 0, 0>>,
     <<96, 2, 127>>}

TypeContents ==
    {<<c>> \o f1 \o f2 : c \in 0..2, f1 \in FuncTypeImages \cup {<<>>},
                         f2 \in {<<>>, <<96, 0, 0>>, <<96, 1, 127, 1, 127>>}}

ExportImages ==
    {name \o <<tag, idx>> : name \in {<<0>>, <<1, 97>>}, tag \in 0..4,
                            idx \in {0, 1, 2, 3, 5}}

ExportContents ==
    {<<c>> \o e1 \o e2 : c \in 0..2, e1 \in ExportImages \cup {<<>>},
                         e2 \in {<<>>, <<0, 1, 2>>, <<0, 3, 0>>}}

LocalsImages ==
    {<<0>>, <<1, 2, 127>>, <<2, 2, 127, 3, 127>>, <<2, 1, 127, 1, 126>>, <<1, 1, 0>>}

InstructionImages ==
    {<<11>>, <<32, 0, 11>>, <<106, 11>>, <<32, 11, 11>>, <<32, 1, 106, 11>>,
     <<1, 11>>, <<106, 1, 11>>, <<32, 0>>, <<11, 106>>}

SizedBy(c, d) == <<Max(Len(c) + d, 0)>> \o c

Slack == {d \in (0 - SizeSlack)..SizeSlack : TRUE}

CodeEntryImages ==
    {SizedBy(l \o i, d) : l \in LocalsImages, i \in InstructionImages,
                          d \in Slack}

CodeContents ==
    {<<c>> \o e1 \o e2 : c \in 0..2, e1 \in CodeEntryImages \cup {<<>>},
                         e2 \in {<<>>, <<2, 0, 11>>, <<4, 1, 1, 127, 11>>}}

ContentsOf(id) ==
    CASE id = customSectionId -> RawContents
      [] id = functionSectionId -> RawContents
      [] id = typeSectionId -> TypeContents
      [] id = exportSectionId -> ExportContents
      [] id = codeSectionId -> CodeContents
      [] OTHER -> {<<>>, <<0>>}

SectionIds ==
    {customSectionId, typeSectionId, functionSectionId, exportSectionId,
     codeSectionId, 2, 11}

\* an id byte, a declared size and a content of the id's kind
SectionImages ==
    UNION {{<<id>> \o SizedBy(c, d) : c \in ContentsOf(id), d \in Slack} :
              id \in SectionIds}

Tails == {<<>>, <<3>>, <<0, 128>>, <<3, 1, 0>>, <<0, 2, 1, 97>>, <<2, 0>>}

Inputs ==
    {GoodHeader \o s \o t : s \in SectionImages \cup {<<>>}, t \in Tails}
      \cup {h \o t : h \in BadHeaders, t \in Tails}

Init ==
    /\ input \in Inputs
    /\ source \in {"bytes.Reader", "os.File"}
    /\ pos = 0
    /\ pc = "magic"
    /\ lim = 0 /\ secId = 0 /\ secSize = 0 /\ secStart = 0
    /\ section = NoSection
    /\ numEntries = 0 /\ result = <<>> /\ lastEntry = NoEntry
    /\ nSections = 0
    /\ err = "nil"
    /\ ret = NoRet

Next ==
    \/ ReadMagic
    \/ ReadVersion
    \/ SectionHeader
    \/ CustomSection
    \/ TypeSection
    \/ FunctionSection
    \/ ExportSection
    \/ UnknownSection
    \/ CodeSectionBegin
    \/ CodeEntry
    \/ CodeSectionEnd

Spec == Init /\ [][Next]_vars

----------------------------------------------------------------------------
(* Properties of Parse *)

HeaderOK == Len(input) >= 8 /\ SubSeq(input, 1, 8) = GoodHeader
MagicOK == Len(input) >= 4 /\ SubSeq(input, 1, 4) = SubSeq(GoodHeader, 1, 4)

KnownSectionIds ==
    {customSectionId, typeSectionId, functionSectionId, exportSectionId, codeSectionId}

\* a section header has been read, and pos is where the decoding of that
\* section's content stopped
AtContentEnd ==
    /\ secStart > 0
    /\ \/ pc \in {"content", "entry", "done"}
       \/ pc = "section" /\ nSections >= 1
       \/ pc = "failed" /\ err # "reading section size failed"

\* C3: Parse fails without invoking parseSection when the first four bytes are
\* not 00 61 73 6D, and also when the magic is right and bytes 4-7 are not
\* 01 00 00 00 or fewer than eight bytes exist.
C3_BadHeaderFailsBeforeSections ==
    /\ ~MagicOK =>
          /\ pc \in {"magic", "failed"}
          /\ pc = "failed" => err \in {"reading magic failed", "magic did not match"}
    /\ (MagicOK /\ ~HeaderOK) =>
          /\ pc \in {"magic", "version", "failed"}
          /\ pc = "failed" => err \in {"reading version failed", "version did not match"}
    /\ ~HeaderOK => nSections = 0 /\ secStart = 0 /\ pos <= 8

\* a wrong version was rejected with a whole section still unread behind it
C3_Witness ==
    /\ pc = "failed" /\ err = "version did not match"
    /\ MagicOK /\ pos = 8 /\ Len(input) > 8

\* C4: after a valid header Parse succeeds exactly when the input ends where the
\* next section's id byte would be read; an end of input inside the size field or
\* inside a section's declared content is an error for every kind of section.
C4_OnlyBoundaryEndSucceeds ==
    /\ (pc = "done" /\ nSections >= 1) => secStart + secSize <= Len(input)
    /\ (pc = "done") => pos = Len(input)

\* C5: a section's content decoder never consumes more than the declared size,
\* a custom payload read to the end stops at the bound even when the stream goes
\* on, and a code entry's decoders never consume more than the smaller of the
\* entry's declared size and what is left of the section.
C5_DecodersStayInBounds ==
    /\ AtContentEnd => pos - secStart <= secSize
    /\ (AtContentEnd /\ pc = "section" /\ section.kind = "custom") =>
          pos = Min(secStart + secSize, Len(input))
    /\ lastEntry # NoEntry =>
          lastEntry.end - lastEntry.start <= Min(lastEntry.size, lastEntry.avail)

\* a code entry's decoder used up its declared size, failed there for want of
\* more, and the section and the stream both had more bytes
C5_Witness ==
    /\ pc = "failed" /\ err = "reading function body failed"
    /\ lastEntry.end - lastEntry.start = lastEntry.size
    /\ lastEntry.size > 0 /\ lastEntry.size < lastEntry.avail
    /\ pos < Len(input)

\* C6: whenever parseSection returns a section, exactly the id byte, the size
\* field and the declared number of content bytes have been consumed.
C6_FramingSynchronized ==
    (pc = "section" /\ nSections >= 1) => pos = secStart + secSize

\* the region of the current section holds a name with a one-byte length prefix
\* and is wholly present in the stream
NamedRegion ==
    /\ secSize >= 1 /\ secStart + secSize <= Len(input)
    /\ input[secStart + 1] < 128
    /\ 1 + input[secStart + 1] <= secSize

\* C7: parseCustomSection on a bounded region holding a length-prefixed name and
\* k >= 0 further bytes returns that name and those k bytes and leaves the region
\* fully consumed.
C7_CustomSectionDecoded ==
    (AtContentEnd /\ secId = customSectionId /\ pc \in {"section", "failed"}
        /\ NamedRegion) =>
        /\ pc = "section"
        /\ section.kind = "custom"
        /\ section.Name = SubSeq(input, secStart + 2, secStart + 1 + input[secStart + 1])
        /\ section.Data = SubSeq(input, secStart + 2 + input[secStart + 1],
                                 secStart + secSize)
        /\ pos = secStart + secSize

VariantOfTag(t) ==
    CASE t = 0 -> "func" [] t = 1 -> "table" [] t = 2 -> "mem" [] t = 3 -> "global"
      [] OTHER -> "none"

\* C8: every export decoded has the description variant its kind tag selects and
\* the index encoded after the tag; a tag outside 0..3 fails the decode.
C8_ExportDescriptionFollowsTag ==
    (pc = "section" /\ nSections >= 1 /\ section.kind = "export") =>
        \A i \in DOMAIN section.exports :
            LET e == section.exports[i]
            IN  /\ input[e.tagAt + 1] \in 0..3
                /\ e.exportDescription.variant = VariantOfTag(input[e.tagAt + 1])
                /\ input[e.tagAt + 2] < 128 =>
                      e.exportDescription.index = input[e.tagAt + 2]

\* the bytes the last code entry's bounded reader could reach
EntryEnd ==
    Min(Len(input), lastEntry.start + Min(lastEntry.size, lastEntry.avail))

\* i is the index in input of an opcode of the last code entry, whose locals
\* vector is empty; the instructions before it are i32.add or local.get with a
\* one-byte index
RECURSIVE IsOpcodeAt(_)
IsOpcodeAt(i) ==
    \/ i = lastEntry.start + 2
    \/ /\ i > lastEntry.start + 2
       /\ \/ input[i - 1] = OpI32Add /\ IsOpcodeAt(i - 1)
          \/ /\ i > lastEntry.start + 3
             /\ input[i - 2] = OpLocalGet /\ input[i - 1] < 128 /\ IsOpcodeAt(i - 2)

KnownOpcodes == {OpEnd, OpLocalGet, OpI32Add}
ValueTypeCodes ==
    {NumberTypeI32, NumberTypeI64, NumberTypeF32, NumberTypeF64, VectorTypeV128,
     ReferenceTypeFuncRef, ReferenceTypeExternRef}

\* the last code entry has no locals and an unrecognized byte at an opcode
\* position of its body
UnknownOpcodeInBody ==
    /\ lastEntry # NoEntry
    /\ lastEntry.start + 1 <= EntryEnd /\ input[lastEntry.start + 1] = 0
    /\ \E i \in (lastEntry.start + 2)..EntryEnd :
          IsOpcodeAt(i) /\ input[i] \notin KnownOpcodes

\* the last code entry's first run of locals has an unrecognized value type
UnknownValueTypeInLocals ==
    /\ lastEntry # NoEntry
    /\ lastEntry.start + 3 <= EntryEnd
    /\ input[lastEntry.start + 1] \in 1..127
    /\ input[lastEntry.start + 2] < 128
    /\ input[lastEntry.start + 3] \notin ValueTypeCodes

\* C9: an unrecognized section id, opcode or value-type code is never skipped:
\* Parse returns an error that is not io.EOF and decodes no later section.
C9_UnknownDiscriminantFails ==
    /\ (secStart > 0 /\ secId \notin KnownSectionIds) =>
          /\ pc \in {"content", "failed"}
          /\ pc = "failed" => err = "reading of section with unknown id failed"
    /\ UnknownOpcodeInBody => pc = "failed" /\ err = "reading function body failed"
    /\ UnknownValueTypeInLocals =>
          pc = "failed" /\ err = "reading function locals value type failed"

\* an unknown opcode after a recognized instruction failed the decode with bytes
\* of the stream still unread
C9_Witness ==
    /\ UnknownOpcodeInBody /\ pc = "failed"
    /\ input[lastEntry.start + 2] = OpI32Add
    /\ pos < Len(input)

\* sum of the counts of the runs of value type c among the first k runs of the
\* last code entry (runs of one-byte counts)
RECURSIVE RunSum(_, _)
RunSum(c, k) ==
    IF k = 0 THEN 0
    ELSE RunSum(c, k - 1)
           + (IF input[lastEntry.start + 1 + 2 * k] = c
              THEN input[lastEntry.start + 2 * k] ELSE 0)

\* the last code entry's locals are runs with one-byte counts
OneByteRuns ==
    /\ input[lastEntry.start + 1] < 128
    /\ \A k \in 1..input[lastEntry.start + 1] : input[lastEntry.start + 2 * k] < 128

\* C10: a code entry's locals mapping has one key per distinct value type
\* declared, holding the sum of the counts of all runs of that type.
C10_LocalsAccumulatePerType ==
    (lastEntry.ok /\ pc \in {"entry", "section", "done"} /\ result # <<>>
        /\ OneByteRuns) =>
        LET locals == result[Len(result)].locals
            runs   == input[lastEntry.start + 1]
        IN  \A c \in {input[lastEntry.start + 1 + 2 * k] : k \in 1..runs} :
                /\ Cardinality({key \in DOMAIN locals : key.code = c}) = 1
                /\ \A key \in DOMAIN locals : key.code = c => locals[key] = RunSum(c, runs)

\* C11: a code entry decodes successfully only if its locals, its instructions
\* and the terminating 0x0B consume exactly the entry's declared length; bytes of
\* the declared length left after the terminator are an error, so that the next
\* entry's length is read right after the previous entry's declared extent.
C11_EntryExactlyConsumed ==
    /\ lastEntry.ok => lastEntry.end = lastEntry.start + lastEntry.size
    /\ (pc = "entry" /\ result # <<>>) => pos = lastEntry.start + lastEntry.size

----------------------------------------------------------------------------
(* Properties of parseName and parseInstructions called directly *)

\* a UTF-8 continuation byte
IsContinuation(b) == b \in 128..191

\* bs is well-formed UTF-8 (Unicode, table 3-7): no overlong form, no
\* surrogate, nothing above U+10FFFF
RECURSIVE ValidUTF8(_)
ValidUTF8(bs) ==
    IF bs = <<>> THEN TRUE
    ELSE IF bs[1] < 128 THEN ValidUTF8(Tail(bs))
    ELSE IF bs[1] \in 194..223
    THEN Len(bs) >= 2 /\ IsContinuation(bs[2]) /\ ValidUTF8(SubSeq(bs, 3, Len(bs)))
    ELSE IF bs[1] \in 224..239
    THEN /\ Len(bs) >= 3
         /\ bs[2] \in (IF bs[1] = 224 THEN 160..191
                       ELSE IF bs[1] = 237 THEN 128..159 ELSE 128..191)
         /\ IsContinuation(bs[3])
         /\ ValidUTF8(SubSeq(bs, 4, Len(bs)))
    ELSE IF bs[1] \in 240..244
    THEN /\ Len(bs) >= 4
         /\ bs[2] \in (IF bs[1] = 240 THEN 144..191
                       ELSE IF bs[1] = 244 THEN 128..143 ELSE 128..191)
         /\ IsContinuation(bs[3]) /\ IsContinuation(bs[4])
         /\ ValidUTF8(SubSeq(bs, 5, Len(bs)))
    ELSE FALSE

\* parseName has returned from a call on the source or on a bounded reader
NameReturned ==
    pc = "returned" /\ ret.fn \in {"parseName", "parseName(LimitReader)"}

\* the number of bytes of the stream the reader of the call could deliver
Reach ==
    IF ret.fn \in {"parseName(LimitReader)", "parseInstructions(LimitReader)"}
    THEN Min(Len(input), lim) ELSE Len(input)

\* C12: parseName fails exactly when fewer bytes remain in its source than the
\* declared count or the name bytes are not valid UTF-8; otherwise, a count of 0
\* with nothing after the length prefix included, it returns the declared bytes
\* and consumes the length prefix and that many bytes.  (One-byte prefixes.)
C12_ParseNameFailsExactly ==
    (NameReturned /\ Reach >= 1 /\ input[1] < 128) =>
        /\ ret.err # "nil" <=>
               \/ Reach - 1 < input[1]
               \/ ~ValidUTF8(SubSeq(input, 2, 1 + input[1]))
        /\ ret.err = "nil" =>
               /\ ret.v = SubSeq(input, 2, 1 + input[1])
               /\ pos = 1 + input[1]

\* parseInstructions has returned from a call on the source or on a bounded
\* reader
InstructionsReturned ==
    pc = "returned"
        /\ ret.fn \in {"parseInstructions", "parseInstructions(LimitReader)"}

\* the index of the last byte of the LEB128 encoding that starts at index i and
\* lies within reach, 0 if there is none
LebEndFrom(i) ==
    IF \E k \in i..Reach : input[k] < 128
    THEN CHOOSE k \in i..Reach : input[k] < 128 /\ \A j \in i..(k - 1) : input[j] >= 128
    ELSE 0

\* the integer encoded by the bytes i..k, as bits
LebBitsOf(i, k) ==
    Norm([b \in 1..(7 * (k - i + 1)) |->
            ((input[i + ((b - 1) \div 7)] % 128) \div Pow2((b - 1) % 7)) % 2])

\* the body read off the stream by opcode positions, i being one: the
\* instructions before the first 0x0B at an opcode position and the index of
\* that byte, or no body when the reach ends or a byte is no instruction first
RECURSIVE BodyFrom(_, _)
BodyFrom(i, instrs) ==
    IF i > Reach THEN [ok |-> FALSE, instrs |-> <<>>, end |-> 0]
    ELSE IF input[i] = OpEnd THEN [ok |-> TRUE, instrs |-> instrs, end |-> i]
    ELSE IF input[i] = OpI32Add
    THEN BodyFrom(i + 1, Append(instrs, [op |-> "int32Add"]))
    ELSE IF input[i] = OpLocalGet /\ LebEndFrom(i + 1) # 0
            /\ Len(LebBitsOf(i + 1, LebEndFrom(i + 1))) <= 32
    THEN BodyFrom(LebEndFrom(i + 1) + 1,
                  Append(instrs, [op |-> "localGet",
                                  x |-> IntOf(LebBitsOf(i + 1, LebEndFrom(i + 1)))]))
    ELSE [ok |-> FALSE, instrs |-> <<>>, end |-> 0]

\* C13: parseInstructions returns, in stream order, exactly the instructions
\* before the first 0x0B at an opcode position (a 0x0B that is an immediate does
\* not end the body); that byte is consumed and is no element of the result; if
\* the input ends or an instruction fails first, an error is returned and no
\* partial sequence.
C13_InstructionsUpToTerminator ==
    InstructionsReturned =>
        /\ ret.err = "nil" <=> BodyFrom(1, <<>>).ok
        /\ ret.err = "nil" =>
               /\ ret.v = BodyFrom(1, <<>>).instrs
               /\ pos = BodyFrom(1, <<>>).end
               /\ \A k \in DOMAIN ret.v : ret.v[k].op \in {"localGet", "int32Add"}
        /\ ret.err # "nil" => ret.v = <<>>

\* local.get 11 (20 0B) was decoded as one instruction, the 0x0B after it ended
\* the body and the byte behind it was left unread
C13_Witness ==
    /\ InstructionsReturned /\ ret.err = "nil"
    /\ Len(input) = 4 /\ input[1] = OpLocalGet /\ input[2] = OpEnd /\ input[3] = OpEnd
    /\ ret.v = <<[op |-> "localGet", x |-> 11]>>
    /\ pos = 3

----------------------------------------------------------------------------
(* Properties of the integer readers *)

\* the input starts with a valid encoding: continuation bytes, then a byte
\* with the high bit clear
ValidEncoding == \E k \in 1..Len(input) : input[k] < 128
EncLen == CHOOSE k \in 1..Len(input) :
              input[k] < 128 /\ \A j \in 1..(k - 1) : input[j] >= 128

\* the integer whose 7-bit groups are the low seven bits of the encoding's
\* bytes, group i at shift 7*i
EncValue ==
    Norm([i \in 1..(7 * EncLen) |->
            ((input[((i - 1) \div 7) + 1] % 128) \div Pow2((i - 1) % 7)) % 2])

RECURSIVE EncNumber(_)
EncNumber(k) ==
    IF k = 0 THEN 0 ELSE EncNumber(k - 1) + (input[k] % 128) * Pow2(7 * (k - 1))

\* C1: on a valid unsigned LEB128 encoding ReadUleb128 returns the integer whose
\* 7-bit groups are the low seven bits of each byte at shift 7*i, and consumes
\* exactly the bytes of the encoding, up to the first byte with a clear high bit.
C1_UlebDecodesExactly ==
    (pc = "returned" /\ ret.fn = "ReadUleb128" /\ ValidEncoding) =>
        /\ ret.err = "nil"
        /\ ret.v = EncValue
        /\ EncLen <= 4 => BitsToNat(ret.v) = EncNumber(EncLen)
        /\ pos = EncLen

\* a multi-byte encoding was decoded and bytes after it are left unread
C1_Witness ==
    /\ pc = "returned" /\ ret.fn = "ReadUleb128" /\ ret.err = "nil"
    /\ pos = 3 /\ Len(input) = 5 /\ ret.v # <<>>

\* C2: ReadUint8 / ReadUint32 fail exactly when the decoded value needs more than
\* 8 / 32 significant bits; otherwise the value is returned unchanged, however
\* many bytes the encoding used.
C2_NarrowingExact ==
    \A w \in {8, 32} :
        (pc = "returned" /\ ValidEncoding
            /\ ret.fn = (IF w = 8 THEN "ReadUint8" ELSE "ReadUint32")) =>
            /\ ret.err # "nil" <=> Len(EncValue) > w
            /\ ret.err = "nil" => ret.v = EncValue /\ pos = EncLen
            /\ (w = 8 /\ EncLen <= 4) => (ret.err # "nil" <=> EncNumber(EncLen) >= 256)

\* a value of exactly 32 bits read from five bytes is returned by ReadUint32
C2_Witness ==
    /\ pc = "returned" /\ ret.fn = "ReadUint32" /\ ret.err = "nil"
    /\ Len(ret.v) = 32 /\ pos = 5

====
